---- MODULE Spec2Model ----
(***************************************************************************)
(* devcamper_api: the advancedResults middleware (query string -> filtered, *)
(* sorted, paginated result envelope), the storage calls it awaits, the     *)
(* terminal handler that serialises the envelope and the centralized        *)
(* errorHandler.                                                            *)
(*                                                                          *)
(* Strings are tuples of one-character strings, so that JSON.stringify,     *)
(* the operator regex, JSON.parse and parseInt are computed on text.        *)
(***************************************************************************)
EXTENDS Integers, Sequences, FiniteSets, TLC

\* ------------------------------------------------------------------ text

Quote == "\""
Backslash == "\\"

Digits == {"0", "1", "2", "3", "4", "5", "6", "7", "8", "9"}
Letters == {"a", "b", "c", "d", "e", "f", "g", "h", "i", "j", "k", "l", "m",
            "n", "o", "p", "q", "r", "s", "t", "u", "v", "w", "x", "y", "z"}
\* \w of a JavaScript regular expression
WordChars == Letters \cup Digits \cup {"_"}
WhiteSpace == {" "}

DigitVal(c) ==
  CASE c = "0" -> 0 [] c = "1" -> 1 [] c = "2" -> 2 [] c = "3" -> 3
    [] c = "4" -> 4 [] c = "5" -> 5 [] c = "6" -> 6 [] c = "7" -> 7
    [] c = "8" -> 8 [] c = "9" -> 9

Range(f) == {f[i] : i \in DOMAIN f}

RECURSIVE Join(_, _)
\* Array.prototype.join
Join(parts, sep) ==
  IF parts = <<>> THEN <<>>
  ELSE IF Len(parts) = 1 THEN parts[1]
  ELSE parts[1] \o sep \o Join(Tail(parts), sep)

RECURSIVE SplitFrom(_, _, _)
SplitFrom(s, sep, cur) ==
  IF s = <<>> THEN <<cur>>
  ELSE IF Head(s) = sep THEN <<cur>> \o SplitFrom(Tail(s), sep, <<>>)
  ELSE SplitFrom(Tail(s), sep, Append(cur, Head(s)))

\* String.prototype.split on a one-character separator
Split(s, sep) == SplitFrom(s, sep, <<>>)

\* ------------------------------------------------------------ parseInt

NaN == [nan |-> TRUE, v |-> 0]
Num(n) == [nan |-> FALSE, v |-> n]

RECURSIVE SkipSpace(_)
SkipSpace(s) ==
  IF s # <<>> /\ Head(s) \in WhiteSpace THEN SkipSpace(Tail(s)) ELSE s

RECURSIVE DigitPrefix(_)
\* the longest prefix of s made of digits
DigitPrefix(s) ==
  IF s # <<>> /\ Head(s) \in Digits THEN <<Head(s)>> \o DigitPrefix(Tail(s))
  ELSE <<>>

RECURSIVE DecimalValue(_, _)
DecimalValue(ds, acc) ==
  IF ds = <<>> THEN acc ELSE DecimalValue(Tail(ds), 10 * acc + DigitVal(Head(ds)))

\* parseInt(s, 10) of a string: leading white space, an optional sign, then
\* the longest run of digits; NaN when there is no digit. Trailing text is
\* ignored.
parseIntStr(s) ==
  LET t == SkipSpace(s)
      neg == t # <<>> /\ Head(t) = "-"
      u == IF t # <<>> /\ Head(t) \in {"-", "+"} THEN Tail(t) ELSE t
      ds == DigitPrefix(u)
  IN  IF ds = <<>> THEN NaN
      ELSE Num(IF neg THEN 0 - DecimalValue(ds, 0) ELSE DecimalValue(ds, 0))

\* ------------------------------------------------------------------ JSON

\* A value of the query-parameter map as qs decodes it: a string, or a
\* nested map (bracket notation, tuition[gt]=5000). A map is a sequence of
\* entries [k, v] with distinct keys, in insertion order.
StrV(s) == [t |-> "str", s |-> s, o |-> <<>>]
ObjV(o) == [t |-> "obj", s |-> <<>>, o |-> o]
Entry(k, v) == [k |-> k, v |-> v]

Keys(obj) == {obj[i].k : i \in 1..Len(obj)}
HasKey(obj, k) == k \in Keys(obj)
Get(obj, k) == obj[CHOOSE i \in 1..Len(obj) : obj[i].k = k].v

\* obj[k] = v of a JavaScript object: an existing key keeps its position
Put(obj, k, v) ==
  IF HasKey(obj, k)
  THEN [i \in 1..Len(obj) |-> IF obj[i].k = k THEN Entry(k, v) ELSE obj[i]]
  ELSE Append(obj, Entry(k, v))

RECURSIVE Delete(_, _)
\* delete obj[k]
Delete(obj, k) ==
  IF obj = <<>> THEN <<>>
  ELSE IF Head(obj).k = k THEN Tail(obj)
  ELSE <<Head(obj)>> \o Delete(Tail(obj), k)

RECURSIVE Escape(_)
\* JSON.stringify's quoting of a string's characters
Escape(s) ==
  IF s = <<>> THEN <<>>
  ELSE (IF Head(s) \in {Quote, Backslash} THEN <<Backslash, Head(s)>>
        ELSE <<Head(s)>>) \o Escape(Tail(s))

RECURSIVE StringifyValue(_)
RECURSIVE StringifyEntries(_)
StringifyValue(v) ==
  IF v.t = "str" THEN <<Quote>> \o Escape(v.s) \o <<Quote>>
  ELSE <<"{">> \o StringifyEntries(v.o) \o <<"}">>
StringifyEntries(es) ==
  IF es = <<>> THEN <<>>
  ELSE StringifyValue(StrV(es[1].k)) \o <<":">> \o StringifyValue(es[1].v)
       \o (IF Len(es) > 1 THEN <<",">> \o StringifyEntries(Tail(es)) ELSE <<>>)

\* JSON.stringify(reqQuery)
JSONstringify(obj) == StringifyValue(ObjV(obj))

Bad == [ok |-> FALSE, val |-> StrV(<<>>), n |-> 0]
Good(val, n) == [ok |-> TRUE, val |-> val, n |-> n]

\* the character an escape sequence stands for (a control character is
\* written as its escape); <<>> when JSON has no such escape. \uXXXX is left
\* out: JSON.stringify writes it only for control characters, and the
\* alphabet of the requests holds none.
Unescaped(c) ==
  IF c \in {Quote, Backslash, "/"} THEN <<c>>
  ELSE IF c = "b" THEN <<"\\b">>
  ELSE IF c = "f" THEN <<"\\f">>
  ELSE IF c = "n" THEN <<"\\n">>
  ELSE IF c = "r" THEN <<"\\r">>
  ELSE IF c = "t" THEN <<"\\t">>
  ELSE <<>>

RECURSIVE ReadChars(_, _, _)
\* the characters of a JSON string up to its closing quote
ReadChars(text, i, acc) ==
  IF i > Len(text) THEN Bad
  ELSE IF text[i] = Quote THEN Good(StrV(acc), i + 1)
  ELSE IF text[i] = Backslash
       THEN IF i + 1 > Len(text) \/ Unescaped(text[i + 1]) = <<>> THEN Bad
            ELSE ReadChars(text, i + 2, acc \o Unescaped(text[i + 1]))
  ELSE ReadChars(text, i + 1, Append(acc, text[i]))

ParseString(text, i) ==
  IF i > Len(text) \/ text[i] # Quote THEN Bad ELSE ReadChars(text, i + 1, <<>>)

RECURSIVE ParseValue(_, _)
RECURSIVE ParseMembers(_, _, _)
ParseValue(text, i) ==
  IF i > Len(text) THEN Bad
  ELSE IF text[i] = Quote THEN ParseString(text, i)
  ELSE IF text[i] = "{"
       THEN IF i + 1 <= Len(text) /\ text[i + 1] = "}" THEN Good(ObjV(<<>>), i + 2)
            ELSE ParseMembers(text, i + 1, <<>>)
  ELSE Bad
ParseMembers(text, i, acc) ==
  LET key == ParseString(text, i) IN
  IF ~key.ok \/ key.n > Len(text) \/ text[key.n] # ":" THEN Bad
  ELSE LET val == ParseValue(text, key.n + 1) IN
       IF ~val.ok \/ val.n > Len(text) THEN Bad
       ELSE LET obj == Put(acc, key.val.s, val.val) IN
            IF text[val.n] = "," THEN ParseMembers(text, val.n + 1, obj)
            ELSE IF text[val.n] = "}" THEN Good(ObjV(obj), val.n + 1)
            ELSE Bad

\* JSON.parse(queryStr): ok = FALSE stands for the SyntaxError it throws
JSONparse(text) ==
  LET r == ParseValue(text, 1) IN
  IF r.ok /\ r.n = Len(text) + 1 /\ r.val.t = "obj" THEN r ELSE Bad

\* ------------------------------------------------- operator translation

S_gt == <<"g", "t">>
S_gte == <<"g", "t", "e">>
S_lt == <<"l", "t">>
S_lte == <<"l", "t", "e">>
S_in == <<"i", "n">>

\* the alternation of the regular expression /\b(gt|gte|lt|lte|in)\b/g
OperatorWords == {S_gt, S_gte, S_lt, S_lte, S_in}

RECURSIVE RunEnd(_, _)
\* the last index of the run of word characters that starts at i
RunEnd(text, i) ==
  IF i + 1 <= Len(text) /\ text[i + 1] \in WordChars THEN RunEnd(text, i + 1)
  ELSE i

RECURSIVE ReplaceFrom(_, _)
\* A match starts and ends at a word boundary, so it is a whole maximal run
\* of word characters; the scan goes left to right, run by run.
ReplaceFrom(text, i) ==
  IF i > Len(text) THEN <<>>
  ELSE IF text[i] \in WordChars
       THEN LET j == RunEnd(text, i)
                run == SubSeq(text, i, j)
            IN  (IF run \in OperatorWords THEN <<"$">> ELSE <<>>)
                \o run \o ReplaceFrom(text, j + 1)
  ELSE <<text[i]>> \o ReplaceFrom(text, i + 1)

\* queryStr.replace(/\b(gt|gte|lt|lte|in)\b/g, (match) => `$${match}`)
ReplaceOperators(queryStr) == ReplaceFrom(queryStr, 1)

\* -------------------------------------------------------------- storage

MaxDocs == 5

\* schema paths of the Course model
P_id == <<"_", "i", "d">>
P_title == <<"t", "i", "t", "l", "e">>
P_tuition == <<"t", "u", "i", "t", "i", "o", "n">>
P_createdAt == <<"c", "r", "e", "a", "t", "e", "d", "A", "t">>
P_bootcamp == <<"b", "o", "o", "t", "c", "a", "m", "p">>

StringPaths == {P_title}
NumberPaths == {P_tuition}
SchemaPaths == {P_id, P_title, P_tuition, P_createdAt, P_bootcamp}

T_dev == <<"d", "e", "v">>
T_ux == <<"u", "x">>

\* The i-th stored course. Documents 1 and 2 were created at the same
\* instant; titles and tuitions repeat, so that filters match several.
Course(i) ==
  [id |-> i,
   title |-> IF i % 3 = 1 THEN T_dev ELSE IF i % 3 = 2 THEN S_in ELSE T_ux,
   tuition |-> IF i % 2 = 1 THEN 5000 ELSE IF i % 4 = 2 THEN 8000 ELSE 3000,
   createdAt |-> IF i = 1 THEN 2 ELSE i]

Collections == {[i \in 1..n |-> Course(i)] : n \in 0..MaxDocs}

\* character order of the strings the storage engine compares (ASCII)
Ascii == <<" ", Quote, "$", ",", "-", "0", "1", "2", "3", "4", "5", "6", "7",
           "8", "9", "A", "_", "a", "b", "c", "d", "e", "f", "g", "h", "i",
           "j", "k", "l", "m", "n", "o", "p", "q", "r", "s", "t", "u", "v",
           "w", "x", "y", "z">>
CharCode(c) == CHOOSE i \in 1..Len(Ascii) : Ascii[i] = c

RECURSIVE StrLess(_, _)
\* a < b in the engine's binary string order
StrLess(a, b) ==
  IF b = <<>> THEN FALSE
  ELSE IF a = <<>> THEN TRUE
  ELSE IF Head(a) = Head(b) THEN StrLess(Tail(a), Tail(b))
  ELSE CharCode(Head(a)) < CharCode(Head(b))

\* Mongoose's cast of a query value to Number: a decimal numeral, or a
\* CastError
IsNumeral(s) ==
  LET u == IF s # <<>> /\ Head(s) = "-" THEN Tail(s) ELSE s
  IN  u # <<>> /\ \A i \in 1..Len(u) : u[i] \in Digits
CastNumber(s) == IF IsNumeral(s) THEN parseIntStr(s) ELSE NaN

IsOperatorKey(k) == k # <<>> /\ Head(k) = "$"
Comparators == {<<"$">> \o w : w \in OperatorWords}

\* one comparison {path: {op: value}} on a document's field value fv, given
\* whether fv is below (lt) or above (gt) the query's value in the order of
\* the path's type
Compare(op, lt, gt) ==
  CASE op = <<"$">> \o S_gt -> gt
    [] op = <<"$">> \o S_gte -> ~lt
    [] op = <<"$">> \o S_lt -> lt
    [] op = <<"$">> \o S_lte -> ~gt
    [] op = <<"$">> \o S_in -> ~lt /\ ~gt

\* What executing find(filter) on one top-level condition k: v does: the
\* error Mongoose or the server raises for it, or "ok".
\*   - a top-level key starting with $ that is no logical operator is
\*     refused by the server;
\*   - a value for a Number path that is no numeral, and a nested map with
\*     no $-key given for a String or Number path, are CastErrors;
\*   - a $-key that is no comparison is refused (by Mongoose on a schema
\*     path, by the server elsewhere).
ConditionError(k, v) ==
  IF IsOperatorKey(k) THEN "MongoServerError"
  ELSE IF v.t = "str"
       THEN IF k \in NumberPaths /\ CastNumber(v.s).nan THEN "CastError" ELSE "ok"
  ELSE LET ops == v.o
           dollar == {i \in 1..Len(ops) : IsOperatorKey(ops[i].k)}
       IN  IF k \in NumberPaths \cup StringPaths
           THEN IF dollar = {} THEN "CastError"
                ELSE IF \E i \in 1..Len(ops) :
                          ops[i].k \notin Comparators \/ ops[i].v.t # "str"
                     THEN "Error"
                ELSE IF k \in NumberPaths
                        /\ \E i \in 1..Len(ops) : CastNumber(ops[i].v.s).nan
                     THEN "CastError"
                ELSE "ok"
           ELSE IF \E i \in dollar : ops[i].k \notin Comparators
                THEN "MongoServerError"
                ELSE "ok"

\* whether document d satisfies the (castable) condition k: v
Matches(d, k, v) ==
  IF k \in NumberPaths
  THEN IF v.t = "str" THEN d.tuition = CastNumber(v.s).v
       ELSE \A i \in 1..Len(v.o) :
              Compare(v.o[i].k, d.tuition < CastNumber(v.o[i].v.s).v,
                      d.tuition > CastNumber(v.o[i].v.s).v)
  ELSE IF k \in StringPaths
  THEN IF v.t = "str" THEN d.title = v.s
       ELSE \A i \in 1..Len(v.o) :
              Compare(v.o[i].k, StrLess(d.title, v.o[i].v.s), StrLess(v.o[i].v.s, d.title))
  \* a path no document has
  ELSE FALSE

\* the first error among the conditions, Mongoose's casting errors before
\* the server's
FilterError(filter) ==
  LET errs == {ConditionError(filter[i].k, filter[i].v) : i \in 1..Len(filter)}
  IN  IF "CastError" \in errs THEN "CastError"
      ELSE IF "Error" \in errs THEN "Error"
      ELSE IF "MongoServerError" \in errs THEN "MongoServerError"
      ELSE "ok"

\* ids of the documents find(filter) matches
Matching(coll, filter) ==
  {i \in 1..Len(coll) :
     \A j \in 1..Len(filter) : Matches(coll[i], filter[j].k, filter[j].v)}

\* query.sort(spec): the space-separated paths, a leading "-" for descending
RECURSIVE NonEmpty(_)
NonEmpty(parts) ==
  IF parts = <<>> THEN <<>>
  ELSE (IF Head(parts) = <<>> THEN <<>> ELSE <<Head(parts)>>) \o NonEmpty(Tail(parts))

Words(s) == NonEmpty(Split(s, " "))

SortKeys(spec) ==
  LET ws == Words(spec) IN
  [i \in 1..Len(ws) |->
     IF Head(ws[i]) = "-" THEN [path |-> Tail(ws[i]), desc |-> TRUE]
     ELSE [path |-> ws[i], desc |-> FALSE]]

\* d1's value at path is smaller than d2's; a path no document has orders
\* nothing
PathLess(d1, d2, path) ==
  CASE path = P_title -> StrLess(d1.title, d2.title)
    [] path = P_tuition -> d1.tuition < d2.tuition
    [] path = P_createdAt -> d1.createdAt < d2.createdAt
    [] path = P_id -> d1.id < d2.id
    [] OTHER -> FALSE

RECURSIVE Before(_, _, _)
\* d1 must come before d2 under the sort keys, the first key deciding first
Before(d1, d2, keys) ==
  IF keys = <<>> THEN FALSE
  ELSE LET k == Head(keys)
           lt == IF k.desc THEN PathLess(d2, d1, k.path) ELSE PathLess(d1, d2, k.path)
           gt == IF k.desc THEN PathLess(d1, d2, k.path) ELSE PathLess(d2, d1, k.path)
       IN  lt \/ (~gt /\ Before(d1, d2, Tail(keys)))

RECURSIVE SortedOrders(_, _, _)
\* Every order of the documents ids the engine may return for the sort
\* keys: documents the keys do not separate come in any order.
SortedOrders(ids, coll, keys) ==
  IF ids = {} THEN {<<>>}
  ELSE UNION {{<<m>> \o rest : rest \in SortedOrders(ids \ {m}, coll, keys)} :
                m \in {x \in ids : \A o \in ids : ~Before(coll[o], coll[x], keys)}}

Abs(n) == IF n < 0 THEN 0 - n ELSE n
Min(a, b) == IF a < b THEN a ELSE b

\* query.skip(skip).limit(limit) on the ordered matches. The driver sends a
\* negative limit as its absolute value (single batch); limit 0 is no limit.
Window(order, skip, limit) ==
  LET last == IF limit = 0 THEN Len(order) ELSE Min(Len(order), skip + Abs(limit))
  IN  SubSeq(order, skip + 1, last)

\* query.select(fields) and query.populate(populate): the paths a returned
\* document exposes. An inclusive projection keeps _id and, by Mongoose's
\* selectPopulatedFields, the populated path.
Unsigned(w) == IF Head(w) \in {"-", "+"} THEN Tail(w) ELSE w
Included(fields) == {Unsigned(w) : w \in {x \in Range(Words(fields)) : Head(x) # "-"}}
Excluded(fields) == {Unsigned(w) : w \in {x \in Range(Words(fields)) : Head(x) = "-"}}

ProjectionError(sel) ==
  sel.set /\ Included(sel.s) # {} /\ (Excluded(sel.s) \ {P_id}) # {}

Exposed(sel, populate) ==
  IF ~sel.set \/ Words(sel.s) = <<>> THEN SchemaPaths
  ELSE IF Included(sel.s) # {}
       THEN ((Included(sel.s) \cap SchemaPaths) \cup {P_id}
             \cup (IF populate = "none" THEN {} ELSE {P_bootcamp}))
            \ Excluded(sel.s)
  ELSE SchemaPaths \ Excluded(sel.s)

\* What awaiting the query raises, "ok" when it yields documents: the
\* filter's errors, then the server's refusal of a mixed projection or of a
\* negative skip.
QueryError(q) ==
  IF FilterError(q.filter) # "ok" THEN FilterError(q.filter)
  ELSE IF ProjectionError(q.select) \/ q.skip < 0 THEN "MongoServerError"
  ELSE "ok"

\* ------------------------------------------------------------- requests

K_select == <<"s", "e", "l", "e", "c", "t">>
K_sort == <<"s", "o", "r", "t">>
K_page == <<"p", "a", "g", "e">>
K_limit == <<"l", "i", "m", "i", "t">>
K_populate == <<"p", "o", "p", "u", "l", "a", "t", "e">>

V_5000 == <<"5", "0", "0", "0">>
V_8000 == <<"8", "0", "0", "0">>
V_abc == <<"a", "b", "c">>
V_user == <<"u", "s", "e", "r">>
V_login == <<"l", "o", "g", " ", "i", "n">>
V_quoted == <<Quote, "i", "n", Quote>>
K_eq == <<"e", "q">>

Param(k, s) == <<Entry(k, StrV(s))>>
Nested(k, op, s) == <<Entry(k, ObjV(<<Entry(op, StrV(s))>>))>>

\* the filter part of the query strings a requester sends
FilterParams ==
  { <<>>,
    Nested(P_tuition, S_gt, V_5000),            \* tuition[gt]=5000
    Nested(P_tuition, S_lte, V_5000),           \* tuition[lte]=5000
    Nested(P_tuition, S_in, V_8000),            \* tuition[in]=8000
    Nested(P_tuition, S_gt, V_abc),             \* tuition[gt]=abc
    Param(P_tuition, V_5000),                   \* tuition=5000
    Param(P_title, T_dev),                      \* title=dev
    Param(P_title, S_in),                       \* title=in
    Param(P_title, V_login),                    \* title=log in
    Param(P_title, V_quoted),                   \* title="in"
    Nested(P_title, S_lt, S_in),                \* title[lt]=in
    Nested(P_title, S_gte, T_ux),               \* title[gte]=ux
    Nested(P_title, K_eq, T_dev),               \* title[eq]=dev
    Param(S_in, V_5000),                        \* in=5000
    Param(K_populate, V_user),                  \* populate=user
    Nested(P_tuition, S_gte, V_5000) \o Param(P_title, T_dev) }

\* select and sort
ShapeParams ==
  { <<>>,
    Param(K_select, P_title \o <<",">> \o P_tuition) \o Param(K_sort, P_tuition),
    Param(K_sort, <<"-">> \o P_tuition \o <<",">> \o P_title),
    Param(K_select, <<"-">> \o P_createdAt),
    Nested(K_select, K_eq, P_title) }                 \* select[eq]=title

PageParams ==
  { <<>>, Param(K_page, <<"0">>), Param(K_page, <<"2">>), Param(K_page, <<"3">>),
    Param(K_page, <<"-", "1">>), Param(K_page, <<"2", "x">>), Param(K_page, <<"x">>) }

LimitParams ==
  { <<>>, Param(K_limit, <<"0">>), Param(K_limit, <<"1">>), Param(K_limit, <<"2">>),
    Param(K_limit, <<"-", "2">>), Param(K_limit, <<"x">>) }

\* page and limit as sent together with a filter
FilterPageParams == {<<>>, Param(K_page, <<"2">>), Param(K_page, <<"-", "1">>)}
FilterLimitParams == {<<>>, Param(K_limit, <<"1">>), Param(K_limit, <<"-", "2">>)}

\* req.query of the requests: a filter with some paging, or select and sort
\* with every paging
Queries ==
  {f \o pg \o lm :
     f \in FilterParams, pg \in FilterPageParams, lm \in FilterLimitParams}
  \cup {sh \o pg \o lm : sh \in ShapeParams, pg \in PageParams, lm \in LimitParams}

\* the populate argument the route was registered with
Populates == {"none", "bootcamp"}

\* ----------------------------------------------------- advancedResults

removeFields == <<K_select, K_sort, K_page, K_limit>>

RECURSIVE DeleteAll(_, _)
\* removeFields.forEach((param) => delete reqQuery[param])
DeleteAll(obj, ks) ==
  IF ks = <<>> THEN obj ELSE DeleteAll(Delete(obj, Head(ks)), Tail(ks))

\* queryStr after the rewrite
QueryStr(query) == ReplaceOperators(JSONstringify(DeleteAll(query, removeFields)))

\* JSON.parse(queryStr), the argument of model.find
FindArgument(query) == JSONparse(QueryStr(query))

\* req.query.select / req.query.sort when truthy
Truthy(query, k) ==
  HasKey(query, k) /\ (Get(query, k).t = "obj" \/ Get(query, k).s # <<>>)

\* req.query[k] is a nested map (select[a]=b): it has no split method, and
\* calling it throws a TypeError
NotAString(query, k) == HasKey(query, k) /\ Get(query, k).t = "obj"

Unset == [set |-> FALSE, s |-> <<>>]
\* req.query[k].split(",").join(" ")
Fields(query, k) == [set |-> TRUE, s |-> Join(Split(Get(query, k).s, ","), <<" ">>)]

SelectArgument(query) == IF Truthy(query, K_select) THEN Fields(query, K_select) ELSE Unset

DefaultSort == <<"-">> \o P_createdAt

\* SortArgument with the default order applied whatever the request asks
SortArgument_DefaultAlways(query) == DefaultSort

SortArgument(query) ==
  IF Truthy(query, K_sort) THEN Fields(query, K_sort).s ELSE DefaultSort

\* parseInt(req.query[k], 10): NaN for an absent parameter or a nested map
ParseIntParam(query, k) ==
  IF HasKey(query, k) /\ Get(query, k).t = "str" THEN parseIntStr(Get(query, k).s)
  ELSE NaN

\* OrDefault with the default taken for NaN alone
OrDefault_NaNOnly(n, d) == IF n.nan THEN d ELSE n.v

\* n || d: NaN and 0 are falsy
OrDefault(n, d) == IF n.nan \/ n.v = 0 THEN d ELSE n.v

DefaultPage == 1
DefaultLimit == 25

Page(query) == OrDefault(ParseIntParam(query, K_page), DefaultPage)
Limit(query) == OrDefault(ParseIntParam(query, K_limit), DefaultLimit)

\* StartIndex off by one page
StartIndex_NextPage(page, limit) == page * limit

StartIndex(page, limit) == (page - 1) * limit
EndIndex(page, limit) == page * limit

\* HasNext with the comparison not strict
HasNext_NotStrict(endIndex, total) == endIndex <= total

HasNext(endIndex, total) == endIndex < total
HasPrevious(startIndex) == startIndex > 0

\* the pagination object; an absent entry is the empty sequence
Pagination(page, limit, startIndex, endIndex, total) ==
  [next |-> IF HasNext(endIndex, total)
            THEN <<[page |-> page + 1, limit |-> limit]>> ELSE <<>>,
   previous |-> IF HasPrevious(startIndex)
                THEN <<[page |-> page - 1, limit |-> limit]>> ELSE <<>>]

Envelope(results, pagination) ==
  [success |-> TRUE, count |-> Len(results), pagination |-> pagination,
   data |-> results]

\* ----------------------------------------------------------- errorHandler

NoError == [name |-> "none", code |-> 0, statusCode |-> 0, message |-> "",
            errors |-> ""]
\* an error raised by Mongoose, the driver or JSON.parse: it has no statusCode,
\* and its message is the text the raiser gave it
Raised(name) == [name |-> name, code |-> 0, statusCode |-> 0,
                 message |-> "raised", errors |-> ""]

\* new ErrorResponse(message, statusCode)
ErrorResponse(message, statusCode) ==
  [name |-> "Error", code |-> 0, statusCode |-> statusCode, message |-> message,
   errors |-> ""]

\* StatusCode with the first rule that applies winning
StatusCode_FirstRuleWins(err) ==
  IF err.name = "CastError" THEN 404
  ELSE IF err.code = 11000 THEN 409
  ELSE IF err.name = "ValidationError" THEN 400
  ELSE err.statusCode

\* error.statusCode after the three rules, a later rule overriding an earlier
StatusCode(err) ==
  IF err.name = "ValidationError" THEN 400
  ELSE IF err.code = 11000 THEN 409
  ELSE IF err.name = "CastError" THEN 404
  ELSE err.statusCode

\* error.message after the three rules; the messages of a ValidationError are
\* those of err.errors
Message(err) ==
  IF err.name = "ValidationError" THEN err.errors
  ELSE IF err.code = 11000 THEN "Duplicate field value entered!"
  ELSE IF err.name = "CastError" THEN "Resource not found!"
  ELSE err.message

\* res.status(error.statusCode || 500).json({success: false, error: ...})
ErrorResponseOf(err) ==
  [status |-> IF StatusCode(err) = 0 THEN 500 ELSE StatusCode(err),
   body |-> [success |-> FALSE,
             error |-> IF Message(err) = "" THEN "Internal server error!"
                       ELSE Message(err)]]

\* the errors the handlers of the other routes hand to next(err): an
\* ErrorResponse, or what Mongoose raises on a write
Errors ==
  {[name |-> n, code |-> c, statusCode |-> sc, message |-> m,
    errors |-> IF n = "ValidationError" THEN "Please add a name" ELSE ""] :
     n \in {"Error", "CastError", "ValidationError", "MongoServerError"},
     c \in {0, 11000},
     sc \in {0, 401, 403},
     m \in {"", "Invalid credentials!"}}

\* ------------------------------------------------------------------ state

VARIABLES
  collection,   \* the stored courses, in insertion order
  populate,     \* the populate argument of the route's advancedResults
  pc,           \* where the request in flight stands
  req,          \* [query, received]: the request, and its query as it came in
  frame,        \* the local variables of the running advancedResults call
  res,          \* [advancedResults, sent, status, body]: the response
  error,        \* the error handed to next(err)
  dbOrder,      \* the order in which the engine produced the matches
  calls         \* what the request in flight has called so far, and how often

pipeline == <<collection, populate, pc, req, frame, res, error, dbOrder, calls>>

NoEnvelope == [success |-> FALSE]
NoResponse == [advancedResults |-> NoEnvelope, sent |-> FALSE, status |-> 0,
               body |-> NoEnvelope]

NoQuery == [filter |-> <<>>, select |-> Unset, sort |-> <<>>, skip |-> 0,
            limit |-> 0, populate |-> "none"]
NoFrame == [query |-> NoQuery, page |-> 0, limit |-> 0, startIndex |-> 0,
            endIndex |-> 0, total |-> 0, results |-> <<>>]
NoRequest == [query |-> <<>>, received |-> <<>>]

\* countDocuments and query count the calls to the storage engine, counted and
\* fetched tell that they resolved; next, nextErr and send count the calls of
\* next(), next(err) and res.json()
NoCalls == [countDocuments |-> 0, query |-> 0, counted |-> FALSE,
            fetched |-> FALSE, next |-> 0, nextErr |-> 0, send |-> 0]

\* req.query after the filter was built with the control keys on req.query
\* itself
ReqQuery_InPlace(q) == DeleteAll(q, removeFields)

\* req.query after the filter was built: the control keys are deleted from
\* the copy reqQuery
ReqQuery(q) == q

\* PopulateArgument taken from the request when it names one
PopulateArgument_FromRequest(query, routePopulate) ==
  IF HasKey(query, K_populate) THEN "user" ELSE routePopulate

\* the argument of query.populate(): the one the route was registered with
PopulateArgument(query, routePopulate) == routePopulate

PipelineInit ==
  /\ collection \in Collections
  /\ populate \in Populates
  /\ pc = "idle"
  /\ req = NoRequest
  /\ frame = NoFrame
  /\ res = NoResponse
  /\ error = NoError
  /\ dbOrder = <<>>
  /\ calls = NoCalls

\* advancedResults up to its first await: the filter, select, sort, page,
\* limit, startIndex and endIndex are computed and countDocuments() is
\* called. A SyntaxError of JSON.parse, or the TypeError of splitting a
\* select or sort that is no string, rejects the handler's promise, which
\* Express 5 hands to next(err).
Request(q) ==
  /\ pc = "idle"
  /\ res' = NoResponse
  /\ dbOrder' = <<>>
  /\ LET parsed == FindArgument(q)
         rq == ReqQuery(q)
         page == Page(rq)
         limit == Limit(rq)
     IN  /\ req' = [query |-> rq, received |-> q]
         /\ IF ~parsed.ok \/ NotAString(rq, K_select) \/ NotAString(rq, K_sort)
            THEN /\ error' = Raised(IF ~parsed.ok THEN "SyntaxError" ELSE "TypeError")
                 /\ pc' = "errorHandler"
                 /\ frame' = NoFrame
                 /\ calls' = [NoCalls EXCEPT !.nextErr = 1]
            ELSE /\ frame' = [NoFrame EXCEPT
                      !.query = [NoQuery EXCEPT !.filter = parsed.val.o,
                                                !.select = SelectArgument(rq),
                                                !.sort = SortArgument(rq)],
                      !.page = page,
                      !.limit = limit,
                      !.startIndex = StartIndex(page, limit),
                      !.endIndex = EndIndex(page, limit)]
                 /\ error' = NoError
                 /\ pc' = "awaitCount"
                 /\ calls' = [NoCalls EXCEPT !.countDocuments = 1]
  /\ UNCHANGED <<collection, populate>>

\* CountResolves with next() called before the query is awaited
CountResolves_NextEarly ==
  /\ pc = "awaitCount"
  /\ frame' = [frame EXCEPT !.total = Len(collection)]
  /\ calls' = [calls EXCEPT !.counted = TRUE, !.next = @ + 1]
  /\ pc' = "handler"
  /\ UNCHANGED <<collection, populate, req, res, error, dbOrder>>

\* countDocuments() resolves; skip, limit and populate are applied and the
\* query is awaited, which sends it to the storage engine
CountResolves ==
  /\ pc = "awaitCount"
  /\ frame' = [frame EXCEPT
       !.total = Len(collection),
       !.query = [frame.query EXCEPT
                    !.skip = frame.startIndex,
                    !.limit = frame.limit,
                    !.populate = PopulateArgument(req.query, populate)]]
  /\ calls' = [calls EXCEPT !.counted = TRUE, !.query = @ + 1]
  /\ pc' = "awaitQuery"
  /\ UNCHANGED <<collection, populate, req, res, error, dbOrder>>

\* CountRejects with the failure swallowed: the count is taken to be 0 and the
\* query goes on
CountRejects_Swallowed ==
  /\ pc = "awaitCount"
  /\ error' = Raised("MongoNetworkError")
  /\ frame' = [frame EXCEPT !.query = [frame.query EXCEPT
                                         !.skip = frame.startIndex,
                                         !.limit = frame.limit]]
  /\ calls' = [calls EXCEPT !.query = @ + 1]
  /\ pc' = "awaitQuery"
  /\ UNCHANGED <<collection, populate, req, res, dbOrder>>

\* countDocuments() rejects (the storage engine fails): the handler's promise
\* rejects and Express hands the error to next(err)
CountRejects ==
  /\ pc = "awaitCount"
  /\ error' = Raised("MongoNetworkError")
  /\ calls' = [calls EXCEPT !.nextErr = @ + 1]
  /\ pc' = "errorHandler"
  /\ UNCHANGED <<collection, populate, req, frame, res, dbOrder>>

Document(id, q) == [id |-> id, fields |-> Exposed(q.select, q.populate)]

\* the query resolves: the envelope is built and next() is called
QueryResolves ==
  /\ pc = "awaitQuery"
  /\ QueryError(frame.query) = "ok"
  /\ \E order \in SortedOrders(Matching(collection, frame.query.filter),
                              collection, SortKeys(frame.query.sort)) :
       LET page == Window(order, frame.query.skip, frame.query.limit)
           results == [i \in 1..Len(page) |-> Document(page[i], frame.query)]
           pagination == Pagination(frame.page, frame.limit, frame.startIndex,
                                    frame.endIndex, frame.total)
       IN  /\ dbOrder' = order
           /\ frame' = [frame EXCEPT !.results = results]
           /\ res' = [res EXCEPT !.advancedResults = Envelope(results, pagination)]
  /\ calls' = [calls EXCEPT !.fetched = TRUE, !.next = @ + 1]
  /\ pc' = "handler"
  /\ UNCHANGED <<collection, populate, req, error>>

\* the query rejects: with the error Mongoose or the server raises for it,
\* or because the storage engine fails
QueryRejects ==
  /\ pc = "awaitQuery"
  /\ \/ /\ QueryError(frame.query) # "ok"
        /\ error' = Raised(QueryError(frame.query))
     \/ error' = Raised("MongoNetworkError")
  /\ calls' = [calls EXCEPT !.nextErr = @ + 1]
  /\ pc' = "errorHandler"
  /\ UNCHANGED <<collection, populate, req, frame, res, dbOrder>>

\* the terminal handler of the route (getUsers, and getCourses, getReviews,
\* getBootcamps alike): res.status(200).json(res.advancedResults)
getUsers ==
  /\ pc = "handler"
  /\ res' = [res EXCEPT !.sent = TRUE, !.status = 200, !.body = res.advancedResults]
  /\ calls' = [calls EXCEPT !.send = @ + 1]
  /\ pc' = "sent"
  /\ UNCHANGED <<collection, populate, req, frame, error, dbOrder>>

\* the handler of another route, wrapped in asyncHandler, rejects with err or
\* calls next(err) itself
asyncHandler(err) ==
  /\ pc = "idle"
  /\ error' = err
  /\ calls' = [NoCalls EXCEPT !.nextErr = 1]
  /\ pc' = "errorHandler"
  /\ UNCHANGED <<collection, populate, req, frame, res, dbOrder>>

errorHandler ==
  /\ pc = "errorHandler"
  /\ res' = [res EXCEPT !.sent = TRUE,
                        !.status = ErrorResponseOf(error).status,
                        !.body = ErrorResponseOf(error).body]
  /\ calls' = [calls EXCEPT !.send = @ + 1]
  /\ pc' = "sent"
  /\ UNCHANGED <<collection, populate, req, frame, error, dbOrder>>

\* the response is out; the server takes the next request
Finish ==
  /\ pc = "sent"
  /\ pc' = "idle"
  /\ req' = NoRequest
  /\ frame' = NoFrame
  /\ res' = NoResponse
  /\ error' = NoError
  /\ dbOrder' = <<>>
  /\ calls' = NoCalls
  /\ UNCHANGED <<collection, populate>>

\* ------------------------------------------------- the same request again

VARIABLES
  prev,         \* [set, query, status, body]: the request answered before
  parked,       \* the request that waits while the one in flight runs
  users,        \* the ids of the stored users
  auth,         \* what protectRoute reads and sets for the request in flight
  route,        \* the route the request in flight was matched to
  db,           \* [bootcamps, courses, reviews]: the stored entities, by id
  accounts,     \* password and reset fields of the stored users, by id
  now,          \* Date.now()
  mail,         \* the reset tokens e-mailed so far
  served,       \* the requests to the resource and password routes answered so far
  random,       \* the reset tokens crypto.randomBytes has given out so far
  spent         \* the reset tokens of the resetPassword requests answered 200

\* what the resource routes and the password routes work on
beyond == <<route, db, accounts, now, mail, served, random, spent>>

\* what lies outside the request in flight
aside == <<prev, parked, users, auth, beyond>>

vars == <<pipeline, aside>>

NoRun == [set |-> FALSE, query |-> <<>>, status |-> 0, body |-> NoEnvelope]

\* a request that has not arrived yet
NotArrived ==
  [pc |-> "idle", req |-> NoRequest, frame |-> NoFrame, res |-> NoResponse,
   error |-> NoError, dbOrder |-> <<>>, calls |-> NoCalls]

\* req.headers.authorization, req.cookies.token and req.user of a request
\* that has not arrived; decoded and handled tell the id jwt.verify found in
\* the token and how often the guarded handler was invoked
NoAuth == [authorization |-> Unset, cookie |-> Unset, decoded |-> 0,
           user |-> <<>>, handled |-> 0]

\* no route matched yet
NoRoute == [name |-> "none", guarded |-> FALSE, roles |-> {}, id |-> 0,
            body |-> ""]

\* the seeded entities: the bootcamp 1 of the publisher 2, its course 1, and
\* the review 1 the user 1 wrote on it
SeedDb ==
  [bootcamps |-> (1 :> [user |-> 2, name |-> "a", photo |-> "no-photo.jpg"]),
   courses |-> (1 :> [bootcamp |-> 1, title |-> "a"]),
   reviews |-> (1 :> [bootcamp |-> 1, user |-> 1, text |-> "a"])]

\* a user record's password, resetPasswordToken and resetPasswordExpire;
\* an unset field is the empty sequence
Account(password) ==
  [password |-> password, resetPasswordToken |-> <<>>, resetPasswordExpire |-> <<>>]

SeedAccounts == (1 :> Account("old")) @@ (2 :> Account("old"))

BeyondInit ==
  /\ route = NoRoute
  /\ db = SeedDb
  /\ accounts = SeedAccounts
  /\ now = 0
  /\ mail = {}
  /\ served = 0
  /\ random = 0
  /\ spent = {}

Init ==
  /\ PipelineInit
  /\ prev = NoRun
  /\ parked = NotArrived
  /\ users = {1}
  /\ auth = NoAuth
  /\ BeyondInit

Next ==
  \/ \E q \in Queries : Request(q) /\ UNCHANGED aside
  \/ CountResolves /\ UNCHANGED aside
  \/ CountRejects /\ UNCHANGED aside
  \/ QueryResolves /\ UNCHANGED aside
  \/ QueryRejects /\ UNCHANGED aside
  \/ getUsers /\ UNCHANGED aside
  \/ \E err \in Errors : asyncHandler(err) /\ UNCHANGED aside
  \/ errorHandler /\ UNCHANGED aside
  \/ Finish /\ UNCHANGED aside

Spec == Init /\ [][Next]_vars

\* the requests sent twice: select and sort, or a filter, with some paging
RepeatQueries ==
  {sh \o pg \o lm :
     sh \in ShapeParams, pg \in FilterPageParams, lm \in FilterLimitParams}
  \cup FilterParams

\* a request arrives; after the first, it is the one answered before
RepeatRequest(q) ==
  /\ prev.set => q = prev.query
  /\ Request(q)
  /\ UNCHANGED aside

\* the response is out and remembered; after the second, all is forgotten
FinishRun ==
  /\ Finish
  /\ prev' = IF prev.set THEN NoRun
             ELSE [set |-> TRUE, query |-> req.received, status |-> res.status,
                   body |-> res.body]
  /\ UNCHANGED <<parked, users, auth, beyond>>

NextTwice ==
  \/ \E q \in RepeatQueries : RepeatRequest(q)
  \/ CountResolves /\ UNCHANGED aside
  \/ CountRejects /\ UNCHANGED aside
  \/ QueryResolves /\ UNCHANGED aside
  \/ QueryRejects /\ UNCHANGED aside
  \/ getUsers /\ UNCHANGED aside
  \/ errorHandler /\ UNCHANGED aside
  \/ FinishRun

SpecTwice == Init /\ [][NextTwice]_vars

\* ---------------------------------------------------- two requests at once

\* the requests served at the same time
ConcurrentQueries ==
  { <<>>,
    Param(P_title, T_dev),
    Nested(P_tuition, S_gt, V_5000),
    Nested(P_tuition, S_gt, V_abc),
    Param(K_select, P_title \o <<",">> \o P_tuition) \o Param(K_sort, P_tuition),
    Param(K_sort, <<"-">> \o P_tuition \o <<",">> \o P_title)
      \o Param(K_page, <<"2">>) \o Param(K_limit, <<"1">>),
    Param(K_limit, <<"2">>) }

\* the request in flight is not running: it has not arrived, waits for
\* countDocuments() or for the query, or is answered
AtAwait == pc \in {"idle", "awaitCount", "awaitQuery", "sent"}

\* Switch with query declared in the closure of the route's middleware
\* instead of in the handler: one variable for every request of the route
Switch_SharedQuery ==
  /\ AtAwait
  /\ pc' = parked.pc
  /\ req' = parked.req
  /\ frame' = [parked.frame EXCEPT !.query = frame.query]
  /\ res' = parked.res
  /\ error' = parked.error
  /\ dbOrder' = parked.dbOrder
  /\ calls' = parked.calls
  /\ parked' = [pc |-> pc, req |-> req, frame |-> frame, res |-> res,
                error |-> error, dbOrder |-> dbOrder, calls |-> calls]
  /\ UNCHANGED <<collection, populate, prev, users, auth, beyond>>

\* while a request waits at an await, the event loop runs the other request:
\* req, res and the locals of the handler belong to each call
Switch ==
  /\ AtAwait
  /\ pc' = parked.pc
  /\ req' = parked.req
  /\ frame' = parked.frame
  /\ res' = parked.res
  /\ error' = parked.error
  /\ dbOrder' = parked.dbOrder
  /\ calls' = parked.calls
  /\ parked' = [pc |-> pc, req |-> req, frame |-> frame, res |-> res,
                error |-> error, dbOrder |-> dbOrder, calls |-> calls]
  /\ UNCHANGED <<collection, populate, prev, users, auth, beyond>>

NextConcurrent ==
  \/ \E q \in ConcurrentQueries : Request(q) /\ UNCHANGED aside
  \/ CountResolves /\ UNCHANGED aside
  \/ CountRejects /\ UNCHANGED aside
  \/ QueryResolves /\ UNCHANGED aside
  \/ QueryRejects /\ UNCHANGED aside
  \/ getUsers /\ UNCHANGED aside
  \/ errorHandler /\ UNCHANGED aside
  \/ Finish /\ UNCHANGED aside
  \/ Switch

SpecConcurrent == Init /\ [][NextConcurrent]_vars

\* ----------------------------------------------------------- protectRoute

Bearer == <<"B", "e", "a", "r", "e", "r">>
Basic == <<"B", "a", "s", "i", "c">>

\* String.prototype.startsWith
StartsWith(s, prefix) ==
  Len(s) >= Len(prefix) /\ SubSeq(s, 1, Len(prefix)) = prefix

\* the tokens of the requests: signed with JWT_SECRET for the user 1, signed
\* for the user 2, and one whose signature does not verify
Tok1 == <<"t", "1">>
Tok2 == <<"t", "2">>
TokBad == <<"t", "x">>

Tok3 == <<"t", "3">>
Tok4 == <<"t", "4">>
Tok5 == <<"t", "5">>
Tok6 == <<"t", "6">>

\* the tokens signed with JWT_SECRET, each for the user of its place
Signed == <<Tok1, Tok2, Tok3, Tok4, Tok5, Tok6>>

\* jwt.verify(token, JWT_SECRET): the payload's id, or a throw
Verify(token) ==
  IF \E i \in 1..Len(Signed) : Signed[i] = token
  THEN [ok |-> TRUE, id |-> CHOOSE i \in 1..Len(Signed) : Signed[i] = token]
  ELSE [ok |-> FALSE, id |-> 0]

Header(s) == [set |-> TRUE, s |-> s]

\* the Authorization headers of the requests
Authorizations ==
  { Unset,
    Header(Basic \o <<" ">> \o Tok1),
    Header(<<"b", "e", "a", "r", "e", "r", " ">> \o Tok1),
    Header(Bearer),
    Header(Bearer \o <<" ">>),
    Header(Bearer \o Tok1),
    Header(Bearer \o <<" ", " ">> \o Tok1),
    Header(Bearer \o <<" ">> \o Tok1),
    Header(Bearer \o <<" ">> \o Tok2),
    Header(Bearer \o <<" ">> \o TokBad) }

\* the token cookies of the requests
Cookies == {Unset, Header(Tok1), Header(TokBad)}

\* the stored users of the runs
UserSets == {{1}, {1, 2}}

\* Token with the cookie read when the header gives no token
Token_OrCookie(authorization, cookie) ==
  IF authorization.set /\ StartsWith(authorization.s, Bearer)
  THEN LET parts == Split(authorization.s, " ")
       IN  IF Len(parts) >= 2 THEN Header(parts[2]) ELSE Unset
  ELSE cookie

\* token after the first if: authorization.split(" ")[1] of a header that
\* starts with Bearer, undefined otherwise; the cookie is not read
Token(authorization, cookie) ==
  IF authorization.set /\ StartsWith(authorization.s, Bearer)
  THEN LET parts == Split(authorization.s, " ")
       IN  IF Len(parts) >= 2 THEN Header(parts[2]) ELSE Unset
  ELSE Unset

NotAuthorized == ErrorResponse("Not authorized to access this resource!", 401)

\* protectRoute up to its await: without a token, or with one jwt.verify
\* throws on, next(err) is called with the 401; else User.findById is called
protectRoute(a, c) ==
  /\ pc = "idle"
  /\ res' = NoResponse
  /\ LET token == Token(a, c) IN
     IF ~token.set \/ token.s = <<>> \/ ~Verify(token.s).ok
     THEN /\ auth' = [NoAuth EXCEPT !.authorization = a, !.cookie = c]
          /\ error' = NotAuthorized
          /\ calls' = [NoCalls EXCEPT !.nextErr = 1]
          /\ pc' = "errorHandler"
     ELSE /\ auth' = [NoAuth EXCEPT !.authorization = a, !.cookie = c,
                                    !.decoded = Verify(token.s).id]
          /\ error' = NoError
          /\ calls' = NoCalls
          /\ pc' = "awaitUser"
  /\ UNCHANGED <<collection, populate, req, frame, dbOrder, prev, parked, users, beyond>>

\* User.findById resolves, with null when no user has the id: req.user is
\* set and next() is called
UserResolves ==
  /\ pc = "awaitUser"
  /\ auth' = [auth EXCEPT !.user = IF auth.decoded \in users THEN <<auth.decoded>>
                                   ELSE <<>>]
  /\ calls' = [calls EXCEPT !.next = @ + 1]
  /\ pc' = "guarded"
  /\ UNCHANGED <<collection, populate, req, frame, res, error, dbOrder, prev,
                 parked, users, beyond>>

\* User.findById rejects: the catch calls next(err) with the 401
UserRejects ==
  /\ pc = "awaitUser"
  /\ error' = NotAuthorized
  /\ calls' = [calls EXCEPT !.nextErr = @ + 1]
  /\ pc' = "errorHandler"
  /\ UNCHANGED <<collection, populate, req, frame, res, dbOrder, prev, parked,
                 users, auth, beyond>>

\* the guarded handler: req.user.id throws a TypeError when req.user is null;
\* else User.findById resolves and the user is sent, or it rejects
getCurrentUser ==
  /\ pc = "guarded"
  /\ auth' = [auth EXCEPT !.handled = @ + 1]
  /\ IF auth.user = <<>>
     THEN /\ error' = Raised("TypeError")
          /\ calls' = [calls EXCEPT !.nextErr = @ + 1]
          /\ pc' = "errorHandler"
          /\ res' = res
     ELSE \/ /\ res' = [res EXCEPT !.sent = TRUE, !.status = 200,
                                   !.body = [success |-> TRUE, data |-> auth.user]]
             /\ calls' = [calls EXCEPT !.send = @ + 1]
             /\ pc' = "sent"
             /\ error' = error
          \/ /\ error' = Raised("MongoNetworkError")
             /\ calls' = [calls EXCEPT !.nextErr = @ + 1]
             /\ pc' = "errorHandler"
             /\ res' = res
  /\ UNCHANGED <<collection, populate, req, frame, dbOrder, prev, parked, users, beyond>>

\* the response is out; the server takes the next request
FinishGuarded ==
  /\ Finish
  /\ auth' = NoAuth
  /\ UNCHANGED <<prev, parked, users, beyond>>

InitAuth ==
  /\ PipelineInit
  /\ collection = <<>>
  /\ populate = "none"
  /\ prev = NoRun
  /\ parked = NotArrived
  /\ users \in UserSets
  /\ auth = NoAuth
  /\ BeyondInit

NextAuth ==
  \/ \E a \in Authorizations, c \in Cookies : protectRoute(a, c)
  \/ UserResolves
  \/ UserRejects
  \/ getCurrentUser
  \/ errorHandler /\ UNCHANGED aside
  \/ FinishGuarded

SpecAuth == InitAuth /\ [][NextAuth]_vars

\* ------------------------------------------------------- resource routes

\* the users of the runs: 1 and 5 have the role user, 2 and 4 publisher,
\* 3 admin; the token Tok6 is signed for a user that is stored no more
Members == 1..5

RoleOf(id) ==
  IF id \in {1, 5} THEN "user" ELSE IF id \in {2, 4} THEN "publisher" ELSE "admin"

\* the requests one run serves
MaxRequests == 2

\* an id no entity has
NoSuchId == 9

Guarded(name, roles, id, body) ==
  [name |-> name, guarded |-> TRUE, roles |-> roles, id |-> id, body |-> body]

Public(name, id) ==
  [name |-> name, guarded |-> FALSE, roles |-> {}, id |-> id, body |-> ""]

\* the routes with the ids and bodies of the requests: protectRoute and
\* authorizeRole(...) stand before every handler but getCourse
Routes ==
  {Guarded("createBootcamp", {"publisher", "admin"}, 0, "b")}
  \cup {Guarded(n, {"publisher", "admin"}, id, "b") :
          n \in {"updateBootcamp", "deleteBootcamp"}, id \in {1, NoSuchId}}
  \cup {Guarded("uploadBootcampPhoto", {"publisher", "admin"}, id, f) :
          id \in {1, NoSuchId}, f \in {"", "photo.jpg", "notes.txt"}}
  \cup {Guarded("createCourse", {"publisher", "admin"}, id, "b") : id \in {1, NoSuchId}}
  \cup {Guarded(n, {"publisher", "admin"}, id, "b") :
          n \in {"updateCourse", "deleteCourse"}, id \in {1, NoSuchId}}
  \cup {Public("getCourse", id) : id \in {1, NoSuchId}}
  \cup {Guarded("createReview", {"user", "admin"}, id, "b") : id \in {1, NoSuchId}}
  \cup {Guarded(n, {"user", "admin"}, id, "b") :
          n \in {"updateReview", "deleteReview"}, id \in {1, NoSuchId}}
  \cup {Guarded("getSingleUser", {"admin"}, 5, ""),
        Guarded("deleteUser", {"admin"}, 5, "")}

\* the Authorization headers of the requests to these routes
Bearers ==
  {Unset} \cup {Header(Bearer \o <<" ">> \o Signed[i]) : i \in 1..Len(Signed)}

\* the router matches the request to its route
Router(r) ==
  /\ pc = "idle"
  /\ route = NoRoute
  /\ served < MaxRequests
  /\ route' = r
  /\ UNCHANGED <<pipeline, prev, parked, users, auth, db, accounts, now, mail, served,
                 random, spent>>

\* authorizeRole with every authenticated user let through
authorizeRole_AnyRole ==
  /\ pc = "guarded"
  /\ auth.user # <<>>
  /\ calls' = [calls EXCEPT !.next = @ + 1]
  /\ pc' = "authorized"
  /\ UNCHANGED <<collection, populate, req, frame, res, error, dbOrder, prev,
                 parked, users, auth, beyond>>

\* authorizeRole(...roles): reading the role of a null req.user throws a
\* TypeError; a role outside roles gets next(err) with the 403; else next()
authorizeRole ==
  /\ pc = "guarded"
  /\ IF auth.user = <<>>
     THEN /\ error' = Raised("TypeError")
          /\ calls' = [calls EXCEPT !.nextErr = @ + 1]
          /\ pc' = "errorHandler"
     ELSE IF RoleOf(auth.user[1]) \notin route.roles
     THEN /\ error' = ErrorResponse("User role is unauthorize to access this resource!", 403)
          /\ calls' = [calls EXCEPT !.nextErr = @ + 1]
          /\ pc' = "errorHandler"
     ELSE /\ error' = error
          /\ calls' = [calls EXCEPT !.next = @ + 1]
          /\ pc' = "authorized"
  /\ UNCHANGED <<collection, populate, req, frame, res, dbOrder, prev,
                 parked, users, auth, beyond>>

\* the handler named name runs: behind protectRoute and authorizeRole, or at
\* once on a public route
Handles(name) ==
  /\ route.name = name
  /\ pc = IF route.guarded THEN "authorized" ELSE "idle"
  /\ auth' = [auth EXCEPT !.handled = @ + 1]

\* return next(err)
Fails(err) ==
  /\ error' = err
  /\ calls' = [calls EXCEPT !.nextErr = @ + 1]
  /\ pc' = "errorHandler"
  /\ res' = res

\* res.status(status).json({success: true, data})
Sends(status) ==
  /\ res' = [res EXCEPT !.sent = TRUE, !.status = status,
                        !.body = [success |-> TRUE]]
  /\ calls' = [calls EXCEPT !.send = @ + 1]
  /\ pc' = "sent"
  /\ error' = error

\* what no handler of a resource route touches
untouched == <<collection, populate, req, frame, dbOrder, prev, parked, route,
               accounts, now, mail, served, random, spent>>

\* the collection with one more entity, under the id after the ids given so
\* far: the seeded entity has the id 1, and no request deletes a later one
Created(coll, entity) ==
  coll @@ ((Cardinality(DOMAIN coll \cup {1}) + 1) :> entity)

\* the collection without the entity id
Removed(coll, id) == [i \in DOMAIN coll \ {id} |-> coll[i]]

\* Bootcamp.create(req.body)
createBootcamp ==
  /\ Handles("createBootcamp")
  /\ db' = [db EXCEPT !.bootcamps =
              Created(@, [user |-> 0, name |-> route.body, photo |-> "no-photo.jpg"])]
  /\ Sends(201)
  /\ UNCHANGED <<untouched, users>>

\* Bootcamp.findByIdAndUpdate(req.params.bootcampId, req.body)
updateBootcamp ==
  /\ Handles("updateBootcamp")
  /\ IF route.id \notin DOMAIN db.bootcamps
     THEN Fails(ErrorResponse("Bootcamp not found!", 404)) /\ db' = db
     ELSE /\ db' = [db EXCEPT !.bootcamps[route.id].name = route.body]
          /\ Sends(200)
  /\ UNCHANGED <<untouched, users>>

\* Bootcamp.findById, then bootcamp.deleteOne()
deleteBootcamp ==
  /\ Handles("deleteBootcamp")
  /\ IF route.id \notin DOMAIN db.bootcamps
     THEN Fails(ErrorResponse("Bootcamp not found!", 404)) /\ db' = db
     ELSE /\ db' = [db EXCEPT !.bootcamps = Removed(@, route.id)]
          /\ Sends(200)
  /\ UNCHANGED <<untouched, users>>

\* the file is checked and moved; file.mv may fail; then the bootcamp's
\* photo is set
uploadBootcampPhoto ==
  /\ Handles("uploadBootcampPhoto")
  /\ IF route.id \notin DOMAIN db.bootcamps
     THEN Fails(ErrorResponse("Bootcamp not found!", 404)) /\ db' = db
     ELSE IF route.body = ""
     THEN Fails(ErrorResponse("Please upload a photo for the bootcamp!", 400)) /\ db' = db
     ELSE IF route.body # "photo.jpg"
     THEN /\ Fails(ErrorResponse("Please upload a image file for the bootcamp!", 400))
          /\ db' = db
     ELSE \/ /\ Fails(ErrorResponse("There was a problem while uploading the file!", 500))
             /\ db' = db
          \/ /\ db' = [db EXCEPT !.bootcamps[route.id].photo = "photo_1.jpg"]
             /\ Sends(200)
  /\ UNCHANGED <<untouched, users>>

\* Course.findById(req.params.courseId); for no course,
\* next(new ErrorResponse(message), 404): the 404 is an argument of next, and
\* the error has no statusCode
getCourse ==
  /\ Handles("getCourse")
  /\ IF route.id \notin DOMAIN db.courses
     THEN Fails(ErrorResponse("No course found!", 0))
     ELSE Sends(200)
  /\ UNCHANGED <<untouched, users, db>>

\* Bootcamp.findById(req.params.bootcampId), with the same next(err, 404) for
\* no bootcamp; then Course.create(req.body)
createCourse ==
  /\ Handles("createCourse")
  /\ IF route.id \notin DOMAIN db.bootcamps
     THEN Fails(ErrorResponse("No bootcamp found!", 0)) /\ db' = db
     ELSE /\ db' = [db EXCEPT !.courses =
                      Created(@, [bootcamp |-> route.id, title |-> route.body])]
          /\ Sends(201)
  /\ UNCHANGED <<untouched, users>>

\* the course is updated when there is one
updateCourse ==
  /\ Handles("updateCourse")
  /\ IF route.id \notin DOMAIN db.courses
     THEN Fails(ErrorResponse("No course found!", 404)) /\ db' = db
     ELSE /\ db' = [db EXCEPT !.courses[route.id].title = route.body]
          /\ Sends(200)
  /\ UNCHANGED <<untouched, users>>

\* the course is deleted when there is one
deleteCourse ==
  /\ Handles("deleteCourse")
  /\ IF route.id \notin DOMAIN db.courses
     THEN Fails(ErrorResponse("No course found!", 404)) /\ db' = db
     ELSE /\ db' = [db EXCEPT !.courses = Removed(@, route.id)]
          /\ Sends(200)
  /\ UNCHANGED <<untouched, users>>

\* req.body.user = req.user.id; Bootcamp.findById; Review.create(req.body)
createReview ==
  /\ Handles("createReview")
  /\ IF auth.user = <<>>
     THEN Fails(Raised("TypeError")) /\ db' = db
     ELSE IF route.id \notin DOMAIN db.bootcamps
     THEN Fails(ErrorResponse("No bootcamp found!", 404)) /\ db' = db
     ELSE /\ db' = [db EXCEPT !.reviews =
                      Created(@, [bootcamp |-> route.id, user |-> auth.user[1],
                                  text |-> route.body])]
          /\ Sends(201)
  /\ UNCHANGED <<untouched, users>>

\* MayChange with every requester let through
MayChange_Anyone(review) == TRUE

\* the review belongs to req.user, or req.user is admin
MayChange(review) ==
  review.user = auth.user[1] \/ RoleOf(auth.user[1]) = "admin"

\* Review.findById; the owner check; Review.findByIdAndUpdate
updateReview ==
  /\ Handles("updateReview")
  /\ IF route.id \notin DOMAIN db.reviews
     THEN Fails(ErrorResponse("No review found!", 404)) /\ db' = db
     ELSE IF ~MayChange(db.reviews[route.id])
     THEN Fails(ErrorResponse("Not authorized to update the review!", 401)) /\ db' = db
     ELSE /\ db' = [db EXCEPT !.reviews[route.id].text = route.body]
          /\ Sends(200)
  /\ UNCHANGED <<untouched, users>>

\* Review.findById; the owner check; review.deleteOne()
deleteReview ==
  /\ Handles("deleteReview")
  /\ IF route.id \notin DOMAIN db.reviews
     THEN Fails(ErrorResponse("No review found!", 404)) /\ db' = db
     ELSE IF ~MayChange(db.reviews[route.id])
     THEN Fails(ErrorResponse("Not authorized to update the review!", 401)) /\ db' = db
     ELSE /\ db' = [db EXCEPT !.reviews = Removed(@, route.id)]
          /\ Sends(200)
  /\ UNCHANGED <<untouched, users>>

\* User.findById(req.params.userId)
getSingleUser ==
  /\ Handles("getSingleUser")
  /\ Sends(200)
  /\ UNCHANGED <<untouched, users, db>>

\* User.findByIdAndDelete(req.params.userId)
deleteUser ==
  /\ Handles("deleteUser")
  /\ users' = users \ {route.id}
  /\ Sends(200)
  /\ UNCHANGED <<untouched, db>>

\* the response is out; the server takes the next request
FinishRoute ==
  /\ Finish
  /\ auth' = NoAuth
  /\ route' = NoRoute
  /\ served' = served + 1
  /\ UNCHANGED <<prev, parked, users, db, accounts, now, mail, random, spent>>

InitRoutes ==
  /\ PipelineInit
  /\ collection = <<>>
  /\ populate = "none"
  /\ prev = NoRun
  /\ parked = NotArrived
  /\ users = Members
  /\ auth = NoAuth
  /\ BeyondInit

NextRoutes ==
  \/ \E r \in Routes : Router(r)
  \/ \E a \in Bearers : route.guarded /\ protectRoute(a, Unset)
  \/ UserResolves
  \/ UserRejects
  \/ authorizeRole
  \/ createBootcamp
  \/ updateBootcamp
  \/ deleteBootcamp
  \/ uploadBootcampPhoto
  \/ getCourse
  \/ createCourse
  \/ updateCourse
  \/ deleteCourse
  \/ createReview
  \/ updateReview
  \/ deleteReview
  \/ getSingleUser
  \/ deleteUser
  \/ errorHandler /\ UNCHANGED aside
  \/ FinishRoute

SpecRoutes == InitRoutes /\ [][NextRoutes]_vars

\* ------------------------------------------------------- password routes

\* the e-mail address of each stored account, by id
Emails == <<"a@x.io", "b@x.io">>

\* the e-mail addresses of the forgotPassword requests
Addresses == {"a@x.io", "b@x.io", "z@x.io"}

\* the tokens crypto.randomBytes(20).toString("hex") gives out, in order: no
\* two draws give the same token
Randoms == <<"r1", "r2", "r3", "r4", "r5", "r6">>

\* a token nobody was given
Forged == "f0"

\* crypto.createHash("sha256").update(token).digest("hex")
Sha256(token) == <<"sha256", token>>

\* the time a reset token stays valid
ResetTTL == 2

\* the last tick of the clock
MaxNow == 3

\* the password requests one run serves
MaxResets == 3

\* the passwords of the resetPassword requests; the empty one fails the
\* validation of user.save()
Passwords == {"new", "newer", ""}

\* User.findOne({email})
UserOfEmail(email) == {id \in DOMAIN accounts : Emails[id] = email}

\* User.findOne({resetPasswordToken}), with no look at resetPasswordExpire
UserOfToken_NoExpiry(resetPasswordToken) ==
  {id \in DOMAIN accounts :
     accounts[id].resetPasswordToken = <<resetPasswordToken>>}

\* User.findOne({resetPasswordToken, resetPasswordExpire: {$gt: Date.now()}})
UserOfToken(resetPasswordToken) ==
  {id \in DOMAIN accounts :
     /\ accounts[id].resetPasswordToken = <<resetPasswordToken>>
     /\ accounts[id].resetPasswordExpire # <<>>
     /\ accounts[id].resetPasswordExpire[1] > now}

\* user.getResetPasswordToken(): the hash of a new token and its expiry are
\* set on the user
getResetPasswordToken(account, resetToken) ==
  [account EXCEPT !.resetPasswordToken = <<Sha256(resetToken)>>,
                  !.resetPasswordExpire = <<now + ResetTTL>>]

\* user.resetPasswordToken = undefined; user.resetPasswordExpire = undefined
Cleared(account) ==
  [account EXCEPT !.resetPasswordToken = <<>>, !.resetPasswordExpire = <<>>]

\* what no handler of a password route touches
outside == <<collection, populate, req, frame, dbOrder, prev, parked, users,
             auth, db, now, served>>

\* forgotPassword up to the await of sendEmail: no user with the e-mail gets
\* the 404; else the user gets a reset token and is saved
forgotPassword(email) ==
  /\ pc = "idle"
  /\ route = NoRoute
  /\ served < MaxResets
  /\ IF UserOfEmail(email) = {}
     THEN /\ Fails(ErrorResponse("There is no user with that email!", 404))
          /\ route' = [NoRoute EXCEPT !.name = "forgotPassword"]
          /\ UNCHANGED <<accounts, random>>
     ELSE /\ random < Len(Randoms)
          /\ LET id == CHOOSE i \in UserOfEmail(email) : TRUE
                 resetToken == Randoms[random + 1]
             IN /\ accounts' = [accounts EXCEPT
                                  ![id] = getResetPasswordToken(@, resetToken)]
                /\ route' = [NoRoute EXCEPT !.name = "forgotPassword",
                                            !.id = id, !.body = resetToken]
          /\ random' = random + 1
          /\ pc' = "sendEmail"
          /\ UNCHANGED <<res, error, calls>>
  /\ UNCHANGED <<outside, mail, spent>>

\* sendEmail resolves: the token is out, and the answer is 200 "Email Sent!"
EmailSent ==
  /\ pc = "sendEmail"
  /\ mail' = mail \cup {route.body}
  /\ Sends(200)
  /\ UNCHANGED <<outside, route, accounts, random, spent>>

\* the catch of forgotPassword with the clearing of the fields left out
EmailFails_Kept ==
  /\ pc = "sendEmail"
  /\ Fails(ErrorResponse("Email could not be sent!", 500))
  /\ UNCHANGED <<outside, route, accounts, mail, random, spent>>

\* sendEmail rejects: the fields are cleared and the user is saved, then
\* next(err) with the 500; a save that rejects leaves the stored user as it
\* is and rejects the handler
EmailFails ==
  /\ pc = "sendEmail"
  /\ \/ /\ accounts' = [accounts EXCEPT ![route.id] = Cleared(@)]
        /\ Fails(ErrorResponse("Email could not be sent!", 500))
     \/ /\ accounts' = accounts
        /\ Fails(Raised("MongoNetworkError"))
  /\ UNCHANGED <<outside, route, mail, random, spent>>

\* resetPassword: the user of the hashed token, if the token has not
\* expired, gets the password, loses the reset fields and is saved
resetPassword(resetToken, password) ==
  /\ pc = "idle"
  /\ route = NoRoute
  /\ served < MaxResets
  /\ route' = [NoRoute EXCEPT !.name = "resetPassword", !.body = resetToken]
  /\ IF UserOfToken(Sha256(resetToken)) = {}
     THEN /\ Fails(ErrorResponse("Invalid Token!", 400))
          /\ UNCHANGED <<accounts, spent>>
     ELSE IF password = ""
     THEN /\ Fails(Raised("ValidationError"))
          /\ UNCHANGED <<accounts, spent>>
     ELSE /\ LET id == CHOOSE i \in UserOfToken(Sha256(resetToken)) : TRUE
             IN accounts' = [accounts EXCEPT
                               ![id] = [Cleared(@) EXCEPT !.password = password]]
          /\ spent' = spent \cup {resetToken}
          /\ Sends(200)
  /\ UNCHANGED <<outside, mail, random>>

\* time passes
Tick ==
  /\ now < MaxNow
  /\ now' = now + 1
  /\ UNCHANGED <<pipeline, prev, parked, users, auth, route, db, accounts, mail,
                 served, random, spent>>

NextReset ==
  \/ \E email \in Addresses : forgotPassword(email)
  \/ EmailSent
  \/ EmailFails
  \/ \E t \in mail \cup {Forged} \cup {Randoms[i] : i \in 1..random},
        password \in Passwords : resetPassword(t, password)
  \/ Tick
  \/ errorHandler /\ UNCHANGED aside
  \/ FinishRoute

SpecReset == InitRoutes /\ [][NextReset]_vars

\* ----------------------------------------------------------------- claims

\* an envelope has been built for the request in flight
Built == pc \in {"handler", "sent"} /\ res.advancedResults.success
\* the locals of advancedResults hold the request's values
Running == pc \in {"awaitCount", "awaitQuery", "handler"}

envelope == res.advancedResults
Ids(data) == [i \in 1..Len(data) |-> data[i].id]

\* C1: in every envelope, pagination.next is present exactly when
\* page * limit < total, total being the size of the whole collection, and is
\* then {page + 1, limit}; pagination.previous is present exactly when
\* (page - 1) * limit > 0 and is then {page - 1, limit}.
C1_NextPrevious ==
  Built =>
    LET pg == envelope.pagination IN
    /\ (pg.next # <<>>) <=> (frame.page * frame.limit < Len(collection))
    /\ pg.next # <<>> => pg.next = <<[page |-> frame.page + 1, limit |-> frame.limit]>>
    /\ (pg.previous # <<>>) <=> ((frame.page - 1) * frame.limit > 0)
    /\ pg.previous # <<>> =>
         pg.previous = <<[page |-> frame.page - 1, limit |-> frame.limit]>>

\* an envelope with both a next and a previous entry
C1_Witness ==
  Built /\ envelope.pagination.next # <<>> /\ envelope.pagination.previous # <<>>

P3L2 == Param(K_page, <<"3">>) \o Param(K_limit, <<"2">>)

\* C2: for page >= 1 and limit >= 1, startIndex = (page - 1) * limit,
\* endIndex = page * limit, and data is the items at positions startIndex ..
\* startIndex + limit - 1 of the filtered, sorted sequence, fewer when it ends
\* earlier; page=3, limit=2 over 5 items gives 1 item, no next and
\* previous = {page: 2, limit: 2}.
C2_Window ==
  /\ (Running \/ Built) /\ frame.page >= 1 /\ frame.limit >= 1 =>
       /\ frame.startIndex = (frame.page - 1) * frame.limit
       /\ frame.endIndex = frame.page * frame.limit
  /\ Built /\ frame.page >= 1 /\ frame.limit >= 1 =>
       Ids(envelope.data) =
         SubSeq(dbOrder, (frame.page - 1) * frame.limit + 1,
                Min(Len(dbOrder), frame.page * frame.limit))
  /\ Built /\ req.query = P3L2 /\ Len(collection) = 5 =>
       /\ Len(envelope.data) = 1
       /\ envelope.pagination.next = <<>>
       /\ envelope.pagination.previous = <<[page |-> 2, limit |-> 2]>>

\* page=3&limit=2 served from five courses
C2_Witness ==
  Built /\ req.query = P3L2 /\ Len(collection) = 5 /\ Len(envelope.data) = 1

\* C3: whatever strings are sent as page and limit, the page and limit used
\* are positive integers and startIndex is not negative.
C3_PositivePaging ==
  Running => frame.page >= 1 /\ frame.limit >= 1 /\ frame.startIndex >= 0

\* the value the amended C4 expects for a parameter parsed as n
Expected(n, default) == IF n.nan THEN default ELSE IF n.v = 0 THEN default ELSE n.v

C5_BeyondData ==
  Built /\ frame.page >= 1 /\ frame.limit >= 1
        /\ frame.query.filter = DeleteAll(req.query, removeFields)
        /\ frame.startIndex >= Cardinality(Matching(collection, frame.query.filter)) =>
    envelope.data = <<>> /\ envelope.pagination.next = <<>>

\* C6: in every envelope success is true, count is the number of items in
\* data and at most limit; a filter that matches nothing gives count 0 and
\* empty data.
C6_Count ==
  Built =>
    /\ envelope.success
    /\ envelope.count = Len(envelope.data)
    /\ envelope.count <= frame.limit
    /\ Matching(collection, frame.query.filter) = {} =>
         envelope.count = 0 /\ envelope.data = <<>>

\* C7: the predicate given to model.find has none of select, sort, page,
\* limit as a field and has every other top-level key of the request's query.
C7_FilterKeys ==
  Running =>
    /\ \A i \in 1..Len(removeFields) : ~HasKey(frame.query.filter, removeFields[i])
    /\ \A k \in Keys(req.query) \ Range(removeFields) : HasKey(frame.query.filter, k)

\* the comparison or equality the claim C8 expects for a parameter
Translated(v) ==
  IF v.t = "str" THEN v
  ELSE ObjV([i \in 1..Len(v.o) |->
               IF v.o[i].k \in OperatorWords
               THEN Entry(<<"$">> \o v.o[i].k, v.o[i].v)
               ELSE v.o[i]])

\* C8: a parameter f[op]=v with op one of gt, gte, lt, lte, in gives the
\* comparison {f: {$op: v}} in the predicate; a key that is none of the five
\* passes through unchanged, as an equality predicate.
C8_Translation ==
  Running =>
    \A k \in Keys(req.query) \ (Range(removeFields) \cup OperatorWords) :
      /\ HasKey(frame.query.filter, k)
      /\ Get(frame.query.filter, k) = Translated(Get(req.query, k))

RECURSIVE Values(_)
\* the string values of a map, nested ones included, in order
Values(obj) ==
  IF obj = <<>> THEN <<>>
  ELSE (IF Head(obj).v.t = "str" THEN <<Head(obj).v.s>> ELSE Values(Head(obj).v.o))
       \o Values(Tail(obj))

\* C9: the operator translation rewrites key fragments only: every filter
\* value reaches model.find exactly as the requester sent it.
C9_ValuesUnchanged ==
  Running => Values(frame.query.filter) = Values(DeleteAll(req.query, removeFields))

\* C10: when the filter cannot be turned into a valid predicate (JSON.parse
\* fails, or the storage layer cannot cast an operator value), the response
\* is a 400-class {success: false, ...}, never a 404 or a 500.
C10_BadFilter400 ==
  pc = "sent" /\ error.name \in {"SyntaxError", "CastError"} =>
    /\ res.status \in 400..499 /\ res.status # 404
    /\ ~res.body.success

\* the storage engine failed under the request in flight
StorageFailed == error.name = "MongoNetworkError"

\* C11: when countDocuments() or the awaited query rejects with a failure of
\* the storage engine, each of the two storage calls has been issued at most
\* once, res.advancedResults is not set, next() was not called, so the
\* terminal handler does not run, the failure was handed to next(err) once,
\* and errorHandler answers 500.
C11_StorageFailure ==
  /\ calls.countDocuments <= 1
  /\ calls.query <= 1
  /\ StorageFailed =>
       /\ pc \in {"errorHandler", "sent"}
       /\ ~res.advancedResults.success
       /\ calls.next = 0
       /\ calls.nextErr = 1
       /\ pc = "sent" => res.status = 500 /\ ~res.body.success

\* the query was sent, the engine failed, and the answer is out
C11_Witness ==
  pc = "sent" /\ StorageFailed /\ calls.countDocuments = 1 /\ calls.query = 1
  /\ res.status = 500

\* C12: every error that reaches errorHandler gets exactly one response, with
\* the body {success: false, error: message} and the status of its category:
\* 400 for a ValidationError, else 409 for the duplicate-key code 11000, else
\* 404 for a CastError (the later of the three rules winning), else the
\* error's own statusCode, and 500 when it has none.
C12_ErrorResponse ==
  pc = "sent" /\ error # NoError =>
    /\ calls.send = 1
    /\ DOMAIN res.body = {"success", "error"}
    /\ res.body.success = FALSE
    /\ res.body.error # ""
    /\ error.name = "ValidationError" => res.status = 400
    /\ error.name # "ValidationError" /\ error.code = 11000 => res.status = 409
    /\ error.name = "CastError" /\ error.code # 11000 => res.status = 404
    /\ error.name \notin {"ValidationError", "CastError"} /\ error.code # 11000 =>
         /\ res.status = (IF error.statusCode = 0 THEN 500 ELSE error.statusCode)
         /\ error.message # "" => res.body.error = error.message

\* a CastError that also carries the duplicate-key code was answered 409
C12_Witness ==
  pc = "sent" /\ error.name = "CastError" /\ error.code = 11000 /\ res.status = 409
  /\ calls.send = 1

\* the sort keys the entries of a comma-separated sort parameter ask for
Entries(s) ==
  LET es == Split(s, ",") IN
  [i \in 1..Len(es) |->
     IF es[i] # <<>> /\ Head(es[i]) = "-"
     THEN [path |-> Tail(es[i]), desc |-> TRUE]
     ELSE [path |-> es[i], desc |-> FALSE]]

\* no document of the order stands behind one it must precede under keys
Ordered(order, keys) ==
  \A i, j \in 1..Len(order) :
    i < j => ~Before(collection[order[j]], collection[order[i]], keys)

Listed(s) == Range(Split(s, ","))

\* C14: with a select parameter listing fields of the entity, every returned
\* entity exposes exactly the listed fields and the identity field, on a
\* route with a populate argument as on one without; with no select
\* parameter every field is returned.
C14_Select ==
  Built =>
    \A i \in 1..Len(envelope.data) :
      IF ~HasKey(req.query, K_select)
      THEN envelope.data[i].fields = SchemaPaths
      ELSE Listed(Get(req.query, K_select).s) \subseteq SchemaPaths =>
             envelope.data[i].fields = Listed(Get(req.query, K_select).s) \cup {P_id}

\* C15: the populate argument applied to the query is the one the route was
\* registered with, whatever the request's query parameters are, a
\* parameter named populate included; a route registered with none expands
\* no relation.
C15_Populate ==
  /\ calls.query >= 1 => frame.query.populate = populate
  /\ Built =>
       \A i \in 1..Len(envelope.data) :
         populate = "none" /\ ~HasKey(req.query, K_select) =>
           envelope.data[i].fields = SchemaPaths

\* a request asking for populate=user on a route registered with bootcamp
\* had its query sent with bootcamp
C15_Witness ==
  /\ calls.query >= 1 /\ HasKey(req.query, K_populate)
  /\ populate = "bootcamp" /\ frame.query.populate = "bootcamp"

\* C17: res.advancedResults is assigned and next() is called at most once,
\* and only after countDocuments() and the query have both resolved; the
\* terminal handler runs after exactly one next(), finds the whole envelope
\* {success, count, pagination, data} and sends it.
C17_EnvelopeThenNext ==
  /\ calls.next <= 1
  /\ res.advancedResults.success => calls.counted /\ calls.fetched
  /\ calls.next = 1 => calls.counted /\ calls.fetched /\ res.advancedResults.success
  /\ pc = "handler" =>
       /\ calls.next = 1 /\ calls.nextErr = 0
       /\ DOMAIN res.advancedResults = {"success", "count", "pagination", "data"}
       /\ res.advancedResults.count = Len(res.advancedResults.data)
  /\ pc = "sent" /\ res.status = 200 =>
       /\ calls.next = 1
       /\ res.body = res.advancedResults
       /\ DOMAIN res.body = {"success", "count", "pagination", "data"}

\* the terminal handler has sent an envelope with data
C17_Witness ==
  /\ pc = "sent" /\ res.status = 200 /\ calls.next = 1
  /\ calls.counted /\ calls.fetched /\ Len(res.body.data) >= 1

\* C19: building the filter leaves req.query as it was received: select,
\* sort, page, limit and every filter key keep their values, and select,
\* sort, page and limit are read from them afterwards.
C19_QueryUntouched ==
  /\ req.query = req.received
  /\ Running =>
       /\ frame.query.select = SelectArgument(req.received)
       /\ frame.query.sort = SortArgument(req.received)
       /\ frame.page = Page(req.received)
       /\ frame.limit = Limit(req.received)
       /\ \A k \in Range(removeFields) : ~HasKey(frame.query.filter, k)

\* a request with select, sort, page and limit: the filter is empty and
\* req.query holds the four
C19_Witness ==
  /\ Running /\ frame.query.filter = <<>>
  /\ \A k \in Range(removeFields) : HasKey(req.query, k)
  /\ frame.page = 2 /\ frame.limit = 1

\* the request in flight was answered before, and both times with an envelope
Repeated ==
  /\ pc = "sent" /\ prev.set /\ prev.query = req.received
  /\ res.status = 200 /\ prev.status = 200

\* C16: the same request answered twice over an unchanged
\* collection gets the same envelope twice, also when matches share the
\* values of the sort keys.
C16_SameEnvelope == Repeated => res.body = prev.body

\* the envelope the request q gets when it is served alone on the route, the
\* engine producing its matches in the given order
Alone(q, order) ==
  LET page == Page(q)
      limit == Limit(q)
      query == [filter |-> FindArgument(q).val.o, select |-> SelectArgument(q),
                sort |-> SortArgument(q), skip |-> StartIndex(page, limit),
                limit |-> limit, populate |-> populate]
      window == Window(order, query.skip, query.limit)
  IN  Envelope([i \in 1..Len(window) |-> Document(window[i], query)],
               Pagination(page, limit, StartIndex(page, limit),
                          EndIndex(page, limit), Len(collection)))

\* C18: with two requests interleaved at the awaits of countDocuments() and
\* of the query over an unchanged collection, the envelope of each is the one
\* it gets when served alone: built from its own filter, select, sort, page
\* and limit, whatever the other request asked.
C18_Independent ==
  Built =>
    /\ dbOrder \in SortedOrders(Matching(collection, FindArgument(req.received).val.o),
                                collection, SortKeys(SortArgument(req.received)))
    /\ envelope = Alone(req.received, dbOrder)

\* an envelope with data was built while another request, with another
\* query, waits for its query
C18_Witness ==
  /\ Built /\ Len(envelope.data) >= 1
  /\ parked.pc = "awaitQuery"
  /\ parked.req.received # req.received
  /\ parked.frame.query.filter # frame.query.filter

RECURSIVE NoBlanks(_)
\* s without its blanks
NoBlanks(s) ==
  IF s = <<>> THEN <<>>
  ELSE (IF Head(s) = " " THEN <<>> ELSE <<Head(s)>>) \o NoBlanks(Tail(s))

\* what an Authorization header carries after the scheme Bearer
Credential(a) == NoBlanks(SubSeq(a.s, Len(Bearer) + 1, Len(a.s)))

\* the request carries no Authorization header, one that does not start with
\* Bearer, one with no token after the scheme, or one with a token that does
\* not verify
Denied(a) ==
  \/ ~a.set
  \/ ~StartsWith(a.s, Bearer)
  \/ Credential(a) = <<>>
  \/ ~Verify(Credential(a)).ok

\* C20: on a route guarded by protectRoute, a request with no Authorization
\* header, with one that does not start with Bearer, with no token after the
\* scheme, or with a token that fails verification has next(err) called once
\* with the 401 "Not authorized to access this resource!", is answered with
\* it, and the guarded handler is never invoked; a token in a cookie does not
\* change this.
C20_Denied ==
  pc # "idle" /\ Denied(auth.authorization) =>
    /\ pc \in {"errorHandler", "sent"}
    /\ calls.next = 0
    /\ calls.nextErr = 1
    /\ auth.handled = 0
    /\ error = NotAuthorized
    /\ pc = "sent" =>
         /\ res.status = 401
         /\ res.body = [success |-> FALSE,
                        error |-> "Not authorized to access this resource!"]

\* a request with no Authorization header and a good token in the cookie was
\* answered 401
C20_Witness ==
  /\ pc = "sent" /\ ~auth.authorization.set /\ auth.cookie = Header(Tok1)
  /\ res.status = 401 /\ auth.handled = 0

\* C28: whenever protectRoute calls next() without an error, req.user is a
\* stored user, never null; a request whose token verifies but names a user
\* that is stored no more is answered 401.
C28_UserExists ==
  /\ pc = "guarded" => auth.user # <<>>
  /\ pc = "sent" /\ auth.decoded # 0 /\ auth.decoded \notin users => res.status = 401

\* the request in flight comes from a stored user whose role the route's
\* authorizeRole(...) does not name
Outsider ==
  /\ route.guarded
  /\ auth.user # <<>>
  /\ RoleOf(auth.user[1]) \notin route.roles

NonOwner ==
  /\ pc = "authorized"
  /\ route.name \in {"updateBootcamp", "deleteBootcamp", "uploadBootcampPhoto"}
  /\ route.id \in DOMAIN db.bootcamps
  /\ auth.user # <<>>
  /\ RoleOf(auth.user[1]) = "publisher"
  /\ db.bootcamps[route.id].user # auth.user[1]

\* C22: updateBootcamp, deleteBootcamp and uploadBootcampPhoto asked by a
\* publisher who is not the owner of the bootcamp raise a 403 and leave the
\* bootcamp as it was.
C22_OwnerOnly ==
  [][NonOwner => db' = db /\ error'.statusCode = 403]_vars

\* the user of the request in flight owns a stored bootcamp
Published ==
  /\ auth.user # <<>>
  /\ \E i \in DOMAIN db.bootcamps : db.bootcamps[i].user = auth.user[1]

\* C23: createBootcamp asked by a user who has already published a bootcamp
\* raises a 400 and creates nothing, and a bootcamp that is created records
\* the creating user as its owner.
C23_OneBootcamp ==
  [][pc = "authorized" /\ route.name = "createBootcamp" =>
       /\ Published => db' = db /\ error'.statusCode = 400
       /\ \A i \in DOMAIN db'.bootcamps \ DOMAIN db.bootcamps :
            db'.bootcamps[i].user = auth.user[1]]_vars

\* the course controller has answered a request for a course, or for a
\* bootcamp to add a course to, that is not stored
CourseMissing ==
  /\ pc = "sent"
  /\ auth.handled > 0
  /\ \/ route.name = "getCourse" /\ route.id \notin DOMAIN db.courses
     \/ route.name = "createCourse" /\ route.id \notin DOMAIN db.bootcamps

\* C24: getCourse for an id that matches no course, and createCourse for an
\* id that matches no bootcamp, answer with status 404 and
\* {success: false, error}.
C24_NotFound ==
  CourseMissing => res.status = 404 /\ res.body.success = FALSE

\* the request in flight asks to change a stored review, and comes from a
\* stored user who neither wrote it nor is admin
Stranger ==
  /\ route.name \in {"updateReview", "deleteReview"}
  /\ route.id \in DOMAIN db.reviews
  /\ auth.user # <<>>
  /\ db.reviews[route.id].user # auth.user[1]
  /\ RoleOf(auth.user[1]) # "admin"

PasswordChanges(id) == accounts'[id].password # accounts[id].password

====
